---- MODULE Spec2Model ----
(***************************************************************************)
(* Model of policy_eval/utils.py: the Monte Carlo episode runner           *)
(* (run_episodes), the observation adapter (process_observation), the      *)
(* policy loader (load_agent_policies) and select_action, run against an   *)
(* environment whose step/reset results are nondeterministic.              *)
(*                                                                         *)
(* Python dictionaries are objects: a variable holds a reference into      *)
(* `heap`, and heap[r] is the dictionary's current contents.               *)
(***************************************************************************)
EXTENDS Integers, Sequences, FiniteSets, TLC

\* ------------------------------------------------------------------ bounds
MaxEpisodes == 2
MaxSteps == 2
MaxAgents == 2
MaxFireSize == 3

Gammas == {1, 2}
Devices == {"cpu"}
RawStates == {0, 1}

VARIABLES
    \* arguments of run_episodes
    num_episodes, gamma, device, shared_policy, stochastic_policy,
    estimate_expected_value, caller_state,
    \* locals of run_episodes
    pc, agent_policies, episode_returns, episode, ret, t, ma_obs, state,
    ma_action, next_obs, reward, done, next_state, obs,
    \* dictionaries by reference
    heap,
    \* the environment: configuration, current raw state, and what it saw
    env_num_agents, env_initial_fire_size, env_max_steps, env_state,
    env_start, env_log, env_resets, env_reset_arg

args == <<num_episodes, gamma, device, shared_policy, stochastic_policy,
          estimate_expected_value, caller_state>>
env_config == <<env_num_agents, env_initial_fire_size, env_max_steps>>
env_ghost == <<env_start, env_log, env_resets, env_reset_arg>>
locals == <<agent_policies, episode_returns, episode, ret, t, ma_obs, state,
            ma_action, next_obs, reward, done, next_state, obs>>
vars == <<args, env_config, env_ghost, locals, pc, heap, env_state>>

\* ------------------------------------------------------- values and helpers

\* f"{i}"
Str(i) == ToString(i)

\* the dictionary keys f"{i}" for i in range(n)
AgentIds(n) == {Str(i) : i \in 0..(n - 1)}

\* env.agents: the agent objects, in order; env.agents[0] is env_agents(n)[1]
env_agents(n) == [i \in 1..n |-> [index |-> i - 1]]

\* an agent's raw local observation in raw state s: a numpy array
View(s, a) == [ndarray |-> <<s, a>>]

\* torch.from_numpy(x).to(device)
FromNumpy(x, dev) == [tensor |-> x.ndarray, device |-> dev]

\* the gap between neighbouring float32 values at magnitude a: a power of two,
\* and 1 below 2^24, where every integer is a float32
RECURSIVE Ulp(_, _)
Ulp(a, p) == IF a \div p < 2 ^ 24 THEN p ELSE Ulp(a, 2 * p)

\* the float32 nearest to the integer x, ties to the even neighbour
Float32(x) ==
    LET a == IF x < 0 THEN 0 - x ELSE x
        p == Ulp(a, 1)
        q == a \div p
        r == a % p
        n == IF 2 * r < p \/ (2 * r = p /\ q % 2 = 0) THEN q ELSE q + 1
    IN  IF x < 0 THEN 0 - n * p ELSE n * p

\* torch.tensor(raw, dtype=torch.float32).to(device)
StateTensor(raw, dev) ==
    [tensor |-> Float32(raw), dtype |-> "float32", device |-> dev]

\* state.cpu().numpy()
CpuNumpy(st) == [ndarray |-> st.tensor, dtype |-> st.dtype]

\* env.get_state_interpretation(raw_state)[0]: the fire cells of a square fire
\* of side s, row by row from its top-left corner
get_state_interpretation(arr, s) ==
    [k \in 1..(s * s) |-> <<arr.ndarray + ((k - 1) % s), (k - 1) \div s>>]

\* the observation dictionary env.step / env.reset return in raw state s
RawObs(s, n) == [a \in AgentIds(n) |-> View(s, a)]

\* the reward dictionary env.step returns on reaching raw state s: agent i's
\* reward under its key f"{i}", no two agents' rewards alike
RewardDict(s, n) ==
    [a \in AgentIds(n) |-> s + (CHOOSE j \in 0..(n - 1) : Str(j) = a)]

\* a reference no live dictionary has
Alloc(h) == CHOOSE r \in 1..(Cardinality(DOMAIN h) + 1) : r \notin DOMAIN h

\* dictionaries no variable refers to any more are freed
Collect(h, roots) == [r \in (DOMAIN h) \cap roots |-> h[r]]

\* an unbound local that would hold a tensor
None == [none |-> TRUE]

\* the empty dictionary
EmptyDict == [a \in {} |-> 0]

\* ---------------------------------------------------------- pure functions

\* ckpt.trainer.get_policy(name): the trainer's policy object of that name
get_policy(name) == [policy_id |-> name]

\* variant: the policies are numbered from 1
load_agent_policies_FromOne(shared, n) ==
    IF shared
    THEN [k \in 1..n |-> get_policy("shared_policy")]
    ELSE [k \in 1..n |-> get_policy("policy_" \o Str(k))]

\* load_agent_policies: the list of policy handles, position i at index i + 1
load_agent_policies(shared, n) ==
    IF shared
    THEN [k \in 1..n |-> get_policy("shared_policy")]
    ELSE [k \in 1..n |-> get_policy("policy_" \o Str(k - 1))]

\* policy.compute_single_action(observation, explore)[0]: opaque, so the action
\* is the term naming the policy, its input and the exploration flag
compute_single_action(policy, observation, explore) ==
    [by |-> policy, input |-> observation, explore |-> explore]

\* select_action: one action per agent i in range(num_agents), keyed f"{i}"
select_action(mo, policies, n, stochastic) ==
    [a \in AgentIds(n) |->
        LET i == CHOOSE j \in 0..(n - 1) : Str(j) = a
        IN  compute_single_action(policies[i + 1], mo[a],
                                  IF stochastic THEN "default" ELSE "off")]

\* variant: the result is a new dictionary, the one given is left alone
process_observation_Copy(h, ref, dev, st) ==
    LET new == Alloc(h)
    IN  [heap |-> (new :> [key \in DOMAIN h[ref] |->
                             [obs |-> FromNumpy(h[ref][key], dev),
                              state |-> st]]) @@ h,
         result |-> new]

\* process_observation: rebinds every key of the dictionary it is given, in
\* place, and returns that same dictionary
process_observation(h, ref, dev, st) ==
    [heap |-> [h EXCEPT ![ref] =
                  [key \in DOMAIN h[ref] |->
                      [obs |-> FromNumpy(h[ref][key], dev), state |-> st]]],
     result |-> ref]

\* variant: the top-left cell whatever the fire size
initial_state_identifier_TopLeft(trees_on_fire, s) == trees_on_fire[0 + 1]

\* the initial state identifier: the centre cell of an odd-sized fire square,
\* the top-left cell of an even-sized one (Python index k is index k + 1 here)
initial_state_identifier(trees_on_fire, s) ==
    IF s % 2 = 0
    THEN trees_on_fire[0 + 1]
    ELSE trees_on_fire[((s * s - 1) \div 2) + 1]

\* sum over the rewards r_0 .. r_{T-1} of g^t * r_t
RECURSIVE DiscountedSum(_, _)
DiscountedSum(rs, g) ==
    IF rs = <<>> THEN 0
    ELSE DiscountedSum(SubSeq(rs, 1, Len(rs) - 1), g)
         + (g ^ (Len(rs) - 1)) * rs[Len(rs)]

\* the env.step entries of the environment's log of the current episode
StepsOf(log) == SelectSeq(log, LAMBDA e : e.call = "step")

\* the rewards the steps gave the agent whose key is `a`, in order
RewardsOf(steps, a) == [k \in 1..Len(steps) |-> steps[k].reward[a]]

\* ----------------------------------------------------------------- initial

\* the calls explored: every combination of episode count, reset mode, discount,
\* start state and environment step limit (0: the environment has none), with
\* the largest agent count and separate deterministic policies
LoopConfigs ==
    [num_episodes : 0..MaxEpisodes, gamma : Gammas,
     estimate_expected_value : BOOLEAN, start : RawStates,
     max_steps : {0, MaxSteps}, num_agents : {MaxAgents},
     initial_fire_size : {MaxFireSize}, shared_policy : {FALSE},
     stochastic_policy : {FALSE}]

\* and, for one episode, every combination of agent count, policy sharing,
\* action-selection mode, fire size, reset mode and start state
ShapeConfigs ==
    [num_episodes : {1}, gamma : {1},
     estimate_expected_value : BOOLEAN, start : RawStates,
     max_steps : {MaxSteps}, num_agents : 1..MaxAgents,
     initial_fire_size : 1..MaxFireSize, shared_policy : BOOLEAN,
     stochastic_policy : BOOLEAN]

Configs == LoopConfigs \cup ShapeConfigs

\* run_episodes is entered with the environment in the raw state `start`, and
\* with `state` and `ma_obs` built from that state by the caller
Init ==
    /\ \E c \in Configs :
         /\ num_episodes = c.num_episodes
         /\ gamma = c.gamma
         /\ shared_policy = c.shared_policy
         /\ stochastic_policy = c.stochastic_policy
         /\ estimate_expected_value = c.estimate_expected_value
         /\ env_num_agents = c.num_agents
         /\ env_initial_fire_size = c.initial_fire_size
         /\ env_max_steps = c.max_steps
         /\ env_state = c.start
    /\ device \in Devices
    /\ env_start = env_state
    /\ env_log = <<>>
    /\ env_resets = 0
    /\ env_reset_arg = None
    /\ state = StateTensor(env_state, device)
    /\ caller_state = state
    /\ ma_obs = 1
    /\ heap = (1 :> [a \in AgentIds(env_num_agents) |->
                        [obs |-> FromNumpy(View(env_state, a), device),
                         state |-> state]])
    /\ pc = "load"
    /\ agent_policies = <<>>
    /\ episode_returns = <<>>
    /\ episode = 0
    /\ ret = 0
    /\ t = 0
    /\ ma_action = EmptyDict
    /\ next_obs = 0
    /\ reward = EmptyDict
    /\ done = FALSE
    /\ next_state = None
    /\ obs = 0

\* ----------------------------------------------------------------- actions

\* lines 171-175: load the policies, start with no records
LoadPolicies ==
    /\ pc = "load"
    /\ agent_policies' = load_agent_policies(shared_policy, env_num_agents)
    /\ episode_returns' = <<>>
    /\ pc' = "for"
    /\ UNCHANGED <<args, env_config, env_ghost, heap, env_state, episode, ret,
                   t, ma_obs, state, ma_action, next_obs, reward, done,
                   next_state, obs>>

\* variant: one iteration too many
MoreEpisodes_OffByOne == episode <= num_episodes

\* line 177: whether range(num_episodes) has another value, `episode` being the
\* number of values it has given
MoreEpisodes == episode < num_episodes

\* lines 177-181: the next episode starts, with ret = 0 and t = 0
StartEpisode ==
    /\ pc = "for"
    /\ MoreEpisodes
    /\ episode' = episode + 1
    /\ ret' = 0
    /\ t' = 0
    /\ pc' = "select"
    /\ UNCHANGED <<args, env_config, env_ghost, heap, env_state,
                   agent_policies, episode_returns, ma_obs, state, ma_action,
                   next_obs, reward, done, next_state, obs>>

\* line 233: range(num_episodes) is exhausted
Return ==
    /\ pc = "for"
    /\ ~MoreEpisodes
    /\ pc' = "returned"
    /\ UNCHANGED <<args, env_config, env_ghost, heap, env_state, locals>>

\* lines 183-185; the model follows an episode for at most MaxSteps steps
SelectAction ==
    /\ pc = "select"
    /\ t < MaxSteps
    /\ ma_action' = select_action(heap[ma_obs], agent_policies, env_num_agents,
                                  stochastic_policy)
    /\ pc' = "step"
    /\ UNCHANGED <<args, env_config, env_ghost, heap, env_state,
                   agent_policies, episode_returns, episode, ret, t, ma_obs,
                   state, next_obs, reward, done, next_state, obs>>

\* the key of the reward the return tracks: f"{env.agents[0].index}"
TrackedAgent == Str(env_agents(env_num_agents)[1].index)

\* whether the environment's own step limit ends the episode at its next step
AtStepLimit ==
    env_max_steps > 0 /\ Len(StepsOf(env_log)) + 1 >= env_max_steps

\* the roots of the runner's dictionaries
Roots(a, b, c) == {a, b, c} \ {0}

\* line 186: env.step moves to some raw state and returns a new observation
\* dictionary, a reward per agent and the done flag
EnvStep ==
    /\ pc = "step"
    /\ \E s \in RawStates, d \in BOOLEAN :
         /\ AtStepLimit => d
         /\ LET ref == Alloc(heap)
                h   == (ref :> RawObs(s, env_num_agents)) @@ heap
            IN  /\ next_obs' = ref
                /\ heap' = Collect(h, Roots(ma_obs, ref, obs))
         /\ env_state' = s
         /\ reward' = RewardDict(s, env_num_agents)
         /\ done' = d
         /\ env_log' = Append(env_log,
                              [call |-> "step", done |-> d,
                               reward |-> RewardDict(s, env_num_agents)])
    /\ pc' = "update"
    /\ UNCHANGED <<args, env_config, env_start, env_resets, env_reset_arg,
                   agent_policies, episode_returns, episode, ret, t, ma_obs,
                   state, ma_action, next_state, obs>>

\* variant: gamma * t for gamma ** t
UpdateReturn_Product ==
    /\ pc = "update"
    /\ ret' = ret + (gamma * t) * reward[TrackedAgent]
    /\ pc' = IF done THEN "record" ELSE "get_state"
    /\ UNCHANGED <<args, env_config, env_ghost, heap, env_state,
                   agent_policies, episode_returns, episode, t, ma_obs, state,
                   ma_action, next_obs, reward, done, next_state, obs>>

\* variant: done is tested before the reward is added
UpdateReturn_BreakFirst ==
    /\ pc = "update"
    /\ ret' = IF done THEN ret ELSE ret + (gamma ^ t) * reward[TrackedAgent]
    /\ pc' = IF done THEN "record" ELSE "get_state"
    /\ UNCHANGED <<args, env_config, env_ghost, heap, env_state,
                   agent_policies, episode_returns, episode, t, ma_obs, state,
                   ma_action, next_obs, reward, done, next_state, obs>>

\* lines 189-193: add the discounted reward, then leave the loop if done
UpdateReturn ==
    /\ pc = "update"
    /\ ret' = ret + (gamma ^ t) * reward[TrackedAgent]
    /\ pc' = IF done THEN "record" ELSE "get_state"
    /\ UNCHANGED <<args, env_config, env_ghost, heap, env_state,
                   agent_policies, episode_returns, episode, t, ma_obs, state,
                   ma_action, next_obs, reward, done, next_state, obs>>

\* line 196: next_state = torch.tensor(env.get_state(), ...).to(device)
GetNextState ==
    /\ pc = "get_state"
    /\ next_state' = StateTensor(env_state, device)
    /\ env_log' = Append(env_log, [call |-> "get_state"])
    /\ pc' = "process_next"
    /\ UNCHANGED <<args, env_config, env_start, env_resets, env_reset_arg,
                   heap, env_state, agent_policies, episode_returns, episode,
                   ret, t, ma_obs, state, ma_action, next_obs, reward, done,
                   obs>>

\* variant: the observation is marshaled with `state`, not next_state
ProcessNext_StartState ==
    /\ pc = "process_next"
    /\ LET po == process_observation(heap, next_obs, device, state)
       IN  /\ ma_obs' = po.result
           /\ heap' = Collect(po.heap, Roots(po.result, next_obs, obs))
    /\ t' = t + 1
    /\ pc' = "select"
    /\ UNCHANGED <<args, env_config, env_ghost, env_state, agent_policies,
                   episode_returns, episode, ret, state, ma_action, next_obs,
                   reward, done, next_state, obs>>

\* line 197, then the next iteration of `for t in count()`
ProcessNext ==
    /\ pc = "process_next"
    /\ LET po == process_observation(heap, next_obs, device, next_state)
       IN  /\ ma_obs' = po.result
           /\ heap' = Collect(po.heap, Roots(po.result, next_obs, obs))
    /\ t' = t + 1
    /\ pc' = "select"
    /\ UNCHANGED <<args, env_config, env_ghost, env_state, agent_policies,
                   episode_returns, episode, ret, state, ma_action, next_obs,
                   reward, done, next_state, obs>>

\* variant: the identifier is taken from the state the episode ended in
RecordEpisode_FinalState ==
    /\ pc = "record"
    /\ LET trees_on_fire ==
               get_state_interpretation(
                   CpuNumpy(StateTensor(env_state, device)),
                   env_initial_fire_size)
           id == initial_state_identifier(trees_on_fire, env_initial_fire_size)
       IN  episode_returns' = Append(episode_returns, <<ret, id>>)
    /\ pc' = "reset"
    /\ UNCHANGED <<args, env_config, env_ghost, heap, env_state,
                   agent_policies, episode, ret, t, ma_obs, state, ma_action,
                   next_obs, reward, done, next_state, obs>>

\* variant: no reset after the last episode
RecordEpisode_NoLastReset ==
    /\ pc = "record"
    /\ LET trees_on_fire ==
               get_state_interpretation(CpuNumpy(state), env_initial_fire_size)
           id == initial_state_identifier(trees_on_fire, env_initial_fire_size)
       IN  episode_returns' = Append(episode_returns, <<ret, id>>)
    /\ pc' = IF Len(episode_returns) + 1 = num_episodes THEN "for" ELSE "reset"
    /\ UNCHANGED <<args, env_config, env_ghost, heap, env_state,
                   agent_policies, episode, ret, t, ma_obs, state, ma_action,
                   next_obs, reward, done, next_state, obs>>

\* lines 201-211 and 219-229 (the same in both modes): the record of the
\* episode, with the identifier taken from `state`
RecordEpisode ==
    /\ pc = "record"
    /\ LET trees_on_fire ==
               get_state_interpretation(CpuNumpy(state), env_initial_fire_size)
           id == initial_state_identifier(trees_on_fire, env_initial_fire_size)
       IN  episode_returns' = Append(episode_returns, <<ret, id>>)
    /\ pc' = "reset"
    /\ UNCHANGED <<args, env_config, env_ghost, heap, env_state,
                   agent_policies, episode, ret, t, ma_obs, state, ma_action,
                   next_obs, reward, done, next_state, obs>>

\* variant: fixed-start mode resets to the state the environment is in
ResetArgument_Current ==
    IF estimate_expected_value THEN [sampled |-> TRUE]
    ELSE [sampled |-> FALSE,
          state |-> CpuNumpy(StateTensor(env_state, device))]

\* the argument of env.reset: none (line 213) or state.cpu().numpy() (line 231)
ResetArgument ==
    IF estimate_expected_value THEN [sampled |-> TRUE]
    ELSE [sampled |-> FALSE, state |-> CpuNumpy(state)]

\* lines 213 and 231: env.reset starts the next episode, in a state drawn from
\* the initial-state distribution or in the state it is given
EnvReset ==
    /\ pc = "reset"
    /\ \E s \in RawStates :
         /\ ~ResetArgument.sampled => s = ResetArgument.state.ndarray
         /\ env_state' = s
         /\ env_start' = s
         /\ LET ref == Alloc(heap)
                h   == (ref :> RawObs(s, env_num_agents)) @@ heap
            IN  /\ obs' = ref
                /\ heap' = Collect(h, Roots(ma_obs, next_obs, ref))
    /\ env_log' = <<>>
    /\ env_resets' = env_resets + 1
    /\ env_reset_arg' = ResetArgument
    /\ pc' = IF estimate_expected_value THEN "requery" ELSE "process_reset"
    /\ UNCHANGED <<args, env_config, agent_policies, episode_returns, episode,
                   ret, t, ma_obs, state, ma_action, next_obs, reward, done,
                   next_state>>

\* line 214: state = torch.tensor(env.get_state(), ...).to(device)
RequeryState ==
    /\ pc = "requery"
    /\ state' = StateTensor(env_state, device)
    /\ env_log' = Append(env_log, [call |-> "get_state"])
    /\ pc' = "process_reset"
    /\ UNCHANGED <<args, env_config, env_start, env_resets, env_reset_arg,
                   heap, env_state, agent_policies, episode_returns, episode,
                   ret, t, ma_obs, ma_action, next_obs, reward, done,
                   next_state, obs>>

\* lines 215 and 232, then the next iteration of the episode loop
ProcessReset ==
    /\ pc = "process_reset"
    /\ LET po == process_observation(heap, obs, device, state)
       IN  /\ ma_obs' = po.result
           /\ heap' = Collect(po.heap, Roots(po.result, next_obs, obs))
    /\ pc' = "for"
    /\ UNCHANGED <<args, env_config, env_ghost, env_state, agent_policies,
                   episode_returns, episode, ret, t, state, ma_action,
                   next_obs, reward, done, next_state, obs>>

Next ==
    \/ LoadPolicies
    \/ StartEpisode
    \/ Return
    \/ SelectAction
    \/ EnvStep
    \/ UpdateReturn
    \/ GetNextState
    \/ ProcessNext
    \/ RecordEpisode
    \/ EnvReset
    \/ RequeryState
    \/ ProcessReset

Spec == Init /\ [][Next]_vars

\* run_episodes is sequential code: whatever its next step is, it is taken
LiveSpec == Init /\ [][Next]_vars /\ WF_vars(Next)

\* ------------------------------------------------------------------ claims

Last(seq) == seq[Len(seq)]

\* the steps the environment made in the current episode
EnvSteps == StepsOf(env_log)

\* whether the environment has reported the end of the current episode
EpisodeOver == \E k \in 1..Len(EnvSteps) : EnvSteps[k].done

\* episodes the environment has ended since the call began
EpisodesEnded == env_resets + (IF EpisodeOver THEN 1 ELSE 0)

\* the last step of the episode is made and its record not yet appended
RecordPending == EpisodeOver /\ pc \in {"update", "record"}

\* the key of the environment's first agent
FirstAgentKey == Str(env_agents(env_num_agents)[1].index)

\* the discounted return of the current episode, from the environment's log
EpisodeReturn == DiscountedSum(RewardsOf(EnvSteps, FirstAgentKey), gamma)

\* the fire cells of the raw state in which the current episode started
StartCells ==
    get_state_interpretation([ndarray |-> env_start, dtype |-> "float32"],
                             env_initial_fire_size)

\* C1: the list holds one record per episode ended, the record of an episode
\* being appended right after its last step and behind the earlier ones, and
\* exactly num_episodes records when run_episodes returns
C1_OneRecordPerEpisode ==
    /\ [](/\ Len(episode_returns) =
               EpisodesEnded - (IF RecordPending THEN 1 ELSE 0)
          /\ pc = "returned" => Len(episode_returns) = num_episodes)
    /\ [][episode_returns' # episode_returns =>
            /\ pc = "record"
            /\ Len(episode_returns') = Len(episode_returns) + 1
            /\ SubSeq(episode_returns', 1, Len(episode_returns)) =
                   episode_returns]_vars

C1_Witness ==
    /\ pc = "returned"
    /\ num_episodes = MaxEpisodes
    /\ Len(episode_returns) = MaxEpisodes
    /\ estimate_expected_value

\* C2: the return recorded for an episode is the sum over its steps t of
\* gamma^t times the reward the environment gave its first agent at step t
C2_DiscountedReturn ==
    /\ pc = "record" => ret = EpisodeReturn
    /\ pc = "reset" => Last(episode_returns)[1] = EpisodeReturn

\* a second episode of two steps whose rewards differ from the other agents'
C2_Witness ==
    /\ pc = "reset"
    /\ Len(episode_returns) = 2
    /\ Len(EnvSteps) = 2
    /\ gamma = 2
    /\ RewardsOf(EnvSteps, FirstAgentKey) = <<1, 1>>
    /\ Last(episode_returns)[1] = 3
    /\ env_num_agents > 1

\* C3: an episode ends at the first step reported done: the runner calls
\* get_state after every earlier step and nothing after the done step, whose
\* reward is in the return, until the record is appended and the environment
\* reset
C3_EndsAtFirstDone ==
    /\ pc \in {"record", "reset"} =>
         /\ EnvSteps # <<>>
         /\ \A k \in 1..Len(env_log) :
                env_log[k].call = "step" =>
                    /\ env_log[k].done <=> k = Len(env_log)
                    /\ ~env_log[k].done => env_log[k + 1].call = "get_state"
         /\ Len(EnvSteps) = t + 1
         /\ ret = EpisodeReturn
    /\ pc \in {"select", "step", "get_state", "process_next"} => ~EpisodeOver

C3_Witness ==
    /\ pc = "reset"
    /\ Len(EnvSteps) = 2
    /\ Last(EnvSteps).reward[FirstAgentKey] = 1
    /\ ret = EpisodeReturn

\* C4: the identifier recorded is element (s*s - 1) / 2 of the fire-cell list
\* of `state` for an odd fire size s, and element 0 for an even one
C4_IdentifierRule ==
    pc = "reset" =>
        LET s     == env_initial_fire_size
            cells == get_state_interpretation(CpuNumpy(state), s)
            id    == Last(episode_returns)[2]
        IN  /\ s % 2 = 1 => id = cells[((s * s - 1) \div 2) + 1]
            /\ s % 2 = 0 => id = cells[1]

C4_Witness ==
    /\ pc = "reset"
    /\ env_initial_fire_size = 3
    /\ estimate_expected_value
    /\ Last(episode_returns)[2] = <<state.tensor + 1, 1>>

\* C5: the identifier recorded for an episode is that of the raw state the
\* episode started in, whatever state the environment has reached since
C5_IdentifierOfStartState ==
    /\ pc = "reset" =>
         Last(episode_returns)[2] =
             initial_state_identifier(StartCells, env_initial_fire_size)
    /\ env_resets = 0 => env_start = caller_state.tensor

\* a later episode of sampled-start mode that ends in another state than it
\* started in
C5_Witness ==
    /\ pc = "reset"
    /\ estimate_expected_value
    /\ Len(episode_returns) = 2
    /\ env_state # env_start
    /\ env_start # caller_state.tensor

\* C6: in fixed-start mode every env.reset is given the state the caller
\* supplied, which is the state every episode starts in
C6_FixedStartState ==
    ~estimate_expected_value =>
        /\ state = caller_state
        /\ env_start = caller_state.tensor
        /\ env_resets > 0 =>
             env_reset_arg =
                 [sampled |-> FALSE, state |-> CpuNumpy(caller_state)]

C6_Witness ==
    /\ ~estimate_expected_value
    /\ env_resets = 2
    /\ next_state # None
    /\ next_state # caller_state

\* the name of agent i's own policy
PolicyName(i) == <<"policy_0", "policy_1", "policy_2", "policy_3">>[i + 1]

\* C7: load_agent_policies returns num_agents handles: all the one handle
\* named "shared_policy" when policies are shared, else the handle named
\* "policy_i" at position i
C7_PolicyHandles ==
    pc # "load" =>
        /\ Len(agent_policies) = env_num_agents
        /\ shared_policy =>
             \A i, j \in 1..env_num_agents :
                 /\ agent_policies[i] = agent_policies[j]
                 /\ agent_policies[i].policy_id = "shared_policy"
        /\ ~shared_policy =>
             \A i \in 0..(env_num_agents - 1) :
                 agent_policies[i + 1].policy_id = PolicyName(i)

C7_Witness ==
    /\ pc = "for"
    /\ ~shared_policy
    /\ env_num_agents = MaxAgents
    /\ agent_policies[MaxAgents].policy_id = PolicyName(MaxAgents - 1)

\* whether process_observation is about to be called, and on which dictionary
Processing == pc \in {"process_next", "process_reset"}
ProcessedDict == IF pc = "process_next" THEN next_obs ELSE obs
ProcessedState == IF pc = "process_next" THEN next_state ELSE state

\* C8 as claimed: process_observation leaves the mapping it is given as it was
C8_ArgumentUnchanged ==
    [][Processing => heap'[ProcessedDict] = heap[ProcessedDict]]_vars

\* C8: process_observation returns the dictionary it was given, with the same
\* keys, each rebound in place to the tensor of its raw observation and the
\* state; it touches no other dictionary and not the environment
C8_RebindsInPlace ==
    [][Processing =>
         /\ ma_obs' = ProcessedDict
         /\ DOMAIN heap'[ProcessedDict] = DOMAIN heap[ProcessedDict]
         /\ \A key \in DOMAIN heap[ProcessedDict] :
                heap'[ProcessedDict][key] =
                    [obs   |-> FromNumpy(heap[ProcessedDict][key], device),
                     state |-> ProcessedState]
         /\ \A r \in DOMAIN heap' : r # ProcessedDict => heap'[r] = heap[r]
         /\ UNCHANGED <<env_state, env_ghost, env_config>>]_vars

C8_Witness ==
    /\ pc = "select"
    /\ t > 0
    /\ ma_obs = next_obs
    /\ \A key \in DOMAIN heap[next_obs] : heap[next_obs][key].state = next_state

\* C9: at every action selection the observation given to the policies is
\* the one marshaled from the latest env.step or env.reset: every agent's
\* entry holds that agent's view of, and the global state of, the raw state
\* the environment is in
C9_ObservationIsCurrent ==
    /\ pc = "select" =>
          /\ DOMAIN heap[ma_obs] = AgentIds(env_num_agents)
          /\ \A a \in AgentIds(env_num_agents) :
                 heap[ma_obs][a] =
                     [obs   |-> FromNumpy(View(env_state, a), device),
                      state |-> StateTensor(env_state, device)]
    /\ pc = "step" =>
          \A a \in AgentIds(env_num_agents) :
              ma_action[a].input =
                  [obs   |-> FromNumpy(View(env_state, a), device),
                   state |-> StateTensor(env_state, device)]

\* a selection after a step that left the start state
C9_Witness ==
    /\ pc = "select"
    /\ t > 0
    /\ env_state # state.tensor
    /\ Len(episode_returns) > 0

\* the environment ends every episode within a finite number of steps
EnvEndsEpisodes == env_max_steps > 0

\* C10: with an environment that ends every episode, run_episodes returns; in
\* any case it has reset the environment once after each episode and never
\* before the first, num_episodes times when it returns, and it leaves an
\* episode only on a step reported done, however long the episode gets
C10_ReturnsAfterAllEpisodes ==
    /\ EnvEndsEpisodes => <>(pc = "returned")
    /\ [](/\ env_resets =
               Len(episode_returns) - (IF pc = "reset" THEN 1 ELSE 0)
          /\ pc = "returned" => env_resets = num_episodes
          /\ pc \in {"record", "reset"} => done /\ Last(env_log).done
          /\ pc \in {"select", "step", "get_state", "process_next"} =>
                episode = env_resets + 1 /\ ~EpisodeOver)
    /\ [][env_resets' # env_resets => pc = "reset"]_vars

C10_Witness ==
    /\ pc = "returned"
    /\ EnvEndsEpisodes
    /\ env_resets = MaxEpisodes
    /\ num_episodes = MaxEpisodes

====
